---- MODULE Spec2Model ----
(***************************************************************************)
(* Request/response correlation of the Binance FIX client                  *)
(* (KyberNetwork/binance_fix_api): Client.Call / Client.send / waiter.wait *)
(* on the caller goroutines, and the quickfix.Application callbacks        *)
(* OnLogon / OnLogout / FromApp on the session goroutines of the engine.   *)
(*                                                                         *)
(* One step of the model is one access to shared memory of the Go code:    *)
(* a load or store of the atomic flag, a lock of Client.mu, an access to   *)
(* the map Client.pending, a send, receive or close on a call's channel.   *)
(***************************************************************************)
EXTENDS Integers, Sequences, FiniteSets, TLC

(* ------------------------------ bounds -------------------------------- *)

\* Number of invocations of Client.Call over a run.
MaxCalls == 2

\* Number of OnLogout and FromApp callbacks the engine starts over a run
\* (OnLogon only sets the flag and needs no bound).
MaxEvents == 2

\* Caller goroutines, and session goroutines of the engine (one per session
\* of the settings file).
CallerSeq == <<"c1", "c2">>
EngineSeq == <<"e1", "e2">>
Callers == {CallerSeq[i] : i \in DOMAIN CallerSeq}
Engines == {EngineSeq[i] : i \in DOMAIN EngineSeq}
Threads == Callers \cup Engines

\* Request ids: every Call gets a fresh one (uuid.NewString() in the
\* builders); NoId is an id no Call ever used.
NoId   == 0
NoCall == 0
NoMsg  == [type |-> "none", id |-> NoId]

(* ------------------------------ state --------------------------------- *)

VARIABLES
    isConnected,   \* Client.isConnected (atomic.Bool)
    pending,       \* Client.pending: map from id to call (a call number)
    mu,            \* Client.mu: the thread that holds it, or "free"
    calls,         \* the call objects allocated so far, in allocation order
    nextId,        \* how many Calls have been invoked (the ids handed out)
    events,        \* how many OnLogout and FromApp callbacks have been started
    caller,        \* per caller goroutine: its position in Call and its locals
    engine,        \* per session goroutine: its position in a callback and its locals
    crashed,       \* "no", or why the process has died
    result,        \* history: result[id] is what the Call with this id returned
    fromAppRet,    \* history: the last FromApp that returned before its lookup
    start,         \* the goroutine in Client.Start: its position and its context
    op,            \* history: the last Stop, IsConnected or ToAdmin and its outcome
    report,        \* the execution reports handed to decodeExecutionReport
    decoded,       \* what decodeExecutionReport returned for them, in order
    construct      \* the invocations of NewClient: their input, position and outcome

vars == <<isConnected, pending, mu, calls, nextId, events, caller, engine,
          crashed, result, fromAppRet, start, op, report, decoded, construct>>

(* --------------------------- pure helpers ----------------------------- *)

\* utils.go: ErrClosed
ErrClosed == "connection is closed"

\* What quickfix.Send returns when it fails, and ctx.Err().
ErrSend == "send failed"
Nil     == "nil"
ErrCtx  == "context done"

\* delete(m, id)
MapDelete(m, id) == [k \in (DOMAIN m) \ {id} |-> m[k]]

\* m[id] = v
MapPut(m, id, v) == [k \in (DOMAIN m) \cup {id} |-> IF k = id THEN v ELSE m[k]]

\* m[id], nil when absent
MapGet(m, id) == IF id \in DOMAIN m THEN m[id] ELSE NoCall

\* &call{request: msg, done: make(chan error, 1)} for the request with this id.
\* buf is the content of the channel's one-slot buffer (<<>> when empty).
\* The fields after response are history: sends counts the sends attempted on
\* done, by the callbacks that attempted them, taken the times FromApp took
\* the call out of the table, sendOK that quickfix.Send accepted the request,
\* handed the times the request was handed to quickfix.Send.
NewCall(id) ==
    [id |-> id, response |-> NoMsg, buf |-> <<>>, closed |-> FALSE,
     sends |-> 0, by |-> {}, taken |-> 0, sendOK |-> FALSE, handed |-> 0]

\* The call object number k is the current entry of the table under its id.
InTable(k) == MapGet(pending, calls[k].id) = k

CallNums == 1..Len(calls)

\* The call object allocated for this id, NoCall if none.
CallOfId(id) ==
    IF \E k \in CallNums : calls[k].id = id
    THEN CHOOSE k \in CallNums : calls[k].id = id
    ELSE NoCall

SetCall(k, f, v) == [calls EXCEPT ![k] = [calls[k] EXCEPT ![f] = v]]

\* The locals of a caller goroutine: its position in Call, the id and the call
\* of its Call, and (history) when it inserted the call: "connected" with the
\* flag true, "draining" with the flag false and an OnLogout ranging over the
\* table, "drained" with the flag false and no OnLogout running.
IdleCaller == [pc |-> "idle", id |-> NoId, cc |-> NoCall, at |-> "none"]

\* result[id] while the Call with this id has not returned.
Outstanding == "outstanding"
\* The locals of a session goroutine: its position in a callback, the inbound
\* message of FromApp, the call in hand, the keys the range of OnLogout has
\* produced, and (history) the entries of the table when OnLogout began.
IdleEngine == [pc |-> "idle", msg |-> NoMsg, cur |-> NoCall, seen |-> {}, snap |-> {}]

Running == crashed = "no"

\* Goroutines are anonymous: a new Call, or a new callback, runs on the first
\* goroutine of the model that is idle.
FirstIdle(seq, st, t) ==
    \E i \in DOMAIN seq :
        /\ seq[i] = t
        /\ st[t].pc = "idle"
        /\ \A j \in 1..(i - 1) : st[seq[j]].pc # "idle"

(* ------------------ decoding of an execution report ------------------- *)

\* A field of the message body that is not set (msg.Body.Has(tag) is false).
NoField == "<absent>"

\* The body fields decodeExecutionReport reads, by the name of their tag.
RequiredFields == {"OrdStatus", "Symbol", "OrdType", "Side"}
OptionalFields == {"ClOrdID", "OrderID", "Price", "OrderQty", "CumQty", "CumQuoteQty",
                   "TimeInForce", "MaxFloor", "TransactTime", "OrderCreationTime",
                   "WorkingTime"}
ReportFields == RequiredFields \cup OptionalFields \cup {"Text"}

\* The value a field has on the wire when it is set, and a second value for
\* the fields that have one: a rejected status, an empty text, an order id
\* that is no number.
WireValue ==
    [f \in ReportFields |->
        CASE f = "OrdStatus" -> "2"
          [] f = "Text" -> "Order would immediately match and take."
          [] f = "Symbol" -> "BNBUSDT"
          [] f = "OrdType" -> "2"
          [] f = "Side" -> "1"
          [] f = "ClOrdID" -> "my-order-1"
          [] f = "OrderID" -> "12"
          [] f = "TimeInForce" -> "1"
          [] f \in {"Price", "OrderQty", "CumQty", "MaxFloor", "CumQuoteQty"} -> "502"
          [] f = "TransactTime" -> "20240627-11:17:25.223"
          [] OTHER -> "20240627-11:17:25.223000"]
OtherValue == [f \in {"OrdStatus", "Text", "OrderID"} |->
                  CASE f = "OrdStatus" -> "8" [] f = "Text" -> "" [] OTHER -> "1a"]

\* The execution report with the fields of present set, those of other to
\* their second value.
ReportOf(present, other) ==
    [f \in ReportFields |->
        IF f \notin present THEN NoField
        ELSE IF f \in other THEN OtherValue[f] ELSE WireValue[f]]

\* part_002:58-122  the enumerations of the Order and the maps from the wire
\* codes to them; a code the map does not hold gives the zero value "".
mappedOrderStatus == [c \in {"0", "1", "2", "4", "6", "8", "A", "C"} |->
    CASE c = "0" -> "NEW" [] c = "1" -> "PARTIALLY_FILLED" [] c = "2" -> "FILLED"
      [] c = "4" -> "CANCELED" [] c = "6" -> "PENDING_CANCEL" [] c = "8" -> "REJECTED"
      [] c = "A" -> "PENDING_NEW" [] c = "C" -> "EXPIRED"]
mappedTimeInForce == [c \in {"1", "3", "4"} |->
    CASE c = "1" -> "GOOD_TILL_CANCEL" [] c = "3" -> "IMMEDIATE_OR_CANCEL"
      [] c = "4" -> "FILL_OR_KILL"]
mappedOrderType == [c \in {"1", "2", "3", "4"} |->
    CASE c = "1" -> "MARKET" [] c = "2" -> "LIMIT" [] c = "3" -> "STOP"
      [] c = "4" -> "STOP_LIMIT"]
mappedSideType == [c \in {"1", "2"} |-> IF c = "1" THEN "BUY" ELSE "SELL"]
OrderStatusRejected == "REJECTED"

\* m[k] of a Go map: the zero value when k is not a key.
MapLookup(m, k, zero) == IF k \in DOMAIN m THEN m[k] ELSE zero

\* strconv.ParseInt(s, 10, 64), strconv.ParseFloat(s, 64) and the decimal
\* fields' InexactFloat64 on the numerals of the model; time.Parse and the
\* UTCTimestamp field on its timestamps. Anything else (the empty string too)
\* is a syntax error.
Numerals == [n \in {"12", "502"} |-> IF n = "12" THEN 12 ELSE 502]
Timestamps == [t \in {"20240627-11:17:25.223", "20240627-11:17:25.223000"} |->
                  "2024-06-27T11:17:25.223Z"]
ZeroTime == "0001-01-01T00:00:00Z"
Ok(v) == [v |-> v, err |-> "nil"]
Failed(zero, e) == [v |-> zero, err |-> e]
ParseNumber(s) == IF s \in DOMAIN Numerals THEN Ok(Numerals[s])
                  ELSE Failed(0, "invalid syntax")
ParseTime(s) == IF s \in DOMAIN Timestamps THEN Ok(Timestamps[s])
                ELSE Failed(ZeroTime, "cannot parse time")

\* msg.Body.Get(&f) of a field that is not set.
ErrFieldMissing == "Conditionally Required Field Missing"

\* utils.go:278-284, 307-329  getSymbol, getOrderStatus, getOrdType, getSide:
\* Get fails when the field is absent.
getSymbol(msg) ==
    IF msg["Symbol"] = NoField THEN Failed("", ErrFieldMissing) ELSE Ok(msg["Symbol"])
getOrderStatus(msg) ==
    IF msg["OrdStatus"] = NoField THEN Failed("", ErrFieldMissing)
    ELSE Ok(MapLookup(mappedOrderStatus, msg["OrdStatus"], ""))
getOrdType(msg) ==
    IF msg["OrdType"] = NoField THEN Failed("", ErrFieldMissing)
    ELSE Ok(MapLookup(mappedOrderType, msg["OrdType"], ""))
getSide(msg) ==
    IF msg["Side"] = NoField THEN Failed("", ErrFieldMissing)
    ELSE Ok(MapLookup(mappedSideType, msg["Side"], ""))

\* utils.go:268-276, 297-305, 331-339  getText, getClientOrderID,
\* getTimeInForce: the zero value when the field is absent.
getText(msg) == IF msg["Text"] = NoField THEN Ok("") ELSE Ok(msg["Text"])
getClientOrderID(msg) == IF msg["ClOrdID"] = NoField THEN Ok("") ELSE Ok(msg["ClOrdID"])
getTimeInForce(msg) ==
    IF msg["TimeInForce"] = NoField THEN Ok("")
    ELSE Ok(MapLookup(mappedTimeInForce, msg["TimeInForce"], ""))

\* utils.go:286-295  getOrderID: f.Value() is "" when the field is absent, and
\* strconv.ParseInt is called on it all the same.
getOrderID(msg) ==
    ParseNumber(IF msg["OrderID"] = NoField THEN "" ELSE msg["OrderID"])

\* utils.go:341-394  getPrice, getOrderQty, getCumQty, getCumQuoteQty,
\* getMaxFloor: 0 when the field is absent, its number otherwise.
getDecimal(msg, f) == IF msg[f] = NoField THEN Ok(0) ELSE ParseNumber(msg[f])

\* utils.go:396-426  getTransactTime, getOrderCreationTime, getWorkingTime:
\* time.Time{} when the field is absent, its time otherwise.
getTime(msg, f) == IF msg[f] = NoField THEN Ok(ZeroTime) ELSE ParseTime(msg[f])

\* Order{}
ZeroOrder ==
    [Symbol |-> "", OrderID |-> 0, ClientOrderID |-> "", Price |-> 0, OrderQty |-> 0,
     CumQty |-> 0, CumQuoteQty |-> 0, Status |-> "", TimeInForce |-> "", Type |-> "",
     Side |-> "", IcebergQuantity |-> 0, TransactTime |-> ZeroTime,
     OrderCreationTime |-> ZeroTime, WorkingTime |-> ZeroTime]

\* Mutant of ChecksReason: the reason of a rejected report is never looked at.
ChecksReasonNever(status) == FALSE

\* utils.go:169  if status == OrderStatusRejected
ChecksReason(status) == status = OrderStatusRejected

\* utils.go:163-266  decodeExecutionReport: the getters in the order of the
\* code, the first error returned with Order{}.
decodeExecutionReport(msg) ==
    LET status == getOrderStatus(msg)
        reason == getText(msg)
        got == <<getSymbol(msg), getOrderID(msg), getClientOrderID(msg),
                 getDecimal(msg, "Price"), getDecimal(msg, "OrderQty"),
                 getDecimal(msg, "CumQty"), getDecimal(msg, "CumQuoteQty"),
                 getTimeInForce(msg), getOrdType(msg), getSide(msg),
                 getDecimal(msg, "MaxFloor"), getTime(msg, "TransactTime"),
                 getTime(msg, "OrderCreationTime"), getTime(msg, "WorkingTime")>>
        bad == {i \in DOMAIN got : got[i].err # "nil"}
        first == CHOOSE i \in bad : \A j \in bad : i <= j
    IN  IF status.err # "nil" THEN [order |-> ZeroOrder, err |-> status.err]
        ELSE IF ChecksReason(status.v) /\ reason.err # "nil"
             THEN [order |-> ZeroOrder, err |-> reason.err]
        ELSE IF ChecksReason(status.v) /\ reason.v # ""
             THEN [order |-> ZeroOrder, err |-> reason.v]
        ELSE IF bad # {} THEN [order |-> ZeroOrder, err |-> got[first].err]
        ELSE [order |->
                 [Symbol |-> got[1].v, OrderID |-> got[2].v, ClientOrderID |-> got[3].v,
                  Price |-> got[4].v, OrderQty |-> got[5].v, CumQty |-> got[6].v,
                  CumQuoteQty |-> got[7].v, Status |-> status.v,
                  TimeInForce |-> got[8].v, Type |-> got[9].v, Side |-> got[10].v,
                  IcebergQuantity |-> got[11].v, TransactTime |-> got[12].v,
                  OrderCreationTime |-> got[13].v, WorkingTime |-> got[14].v],
              err |-> "nil"]

(* ------------------------ lifecycle and inbound ------------------------ *)

\* No FromApp has returned before its lookup yet. n is the number of the
\* event, msg the message, ret what FromApp returned to the engine, pend the
\* ids in the pending table at that moment.
NoReturn == [n |-> 0, msg |-> NoMsg, ret |-> "none", pend |-> {}]

\* The locals of Client.Start when it is not running: its position, the state
\* of its context ("live", "canceled" by the caller, or past the "deadline" of
\* logonTimeout) and (history) what the last Start returned and whether it
\* had read the flag as true.
IdleStart == [pc |-> "idle", ctx |-> "live", ret |-> "none", saw |-> FALSE]

\* No Stop, IsConnected or ToAdmin has run yet. n is the number of the event,
\* ret what the operation returned or set, lock the holder of Client.mu and
\* pend the ids in the pending table when it ran.
NoOp == [n |-> 0, name |-> "none", ret |-> "none", lock |-> "free", pend |-> {}]

(* ------------------------------- Init --------------------------------- *)

\* NewClient: pending: make(map[string]*call), isConnected false (zero value).
Init ==
    /\ isConnected = FALSE
    /\ pending = <<>>
    /\ mu = "free"
    /\ calls = <<>>
    /\ nextId = 0
    /\ events = 0
    /\ caller = [c \in Callers |-> IdleCaller]
    /\ engine = [e \in Engines |-> IdleEngine]
    /\ crashed = "no"
    /\ result = <<>>
    /\ fromAppRet = NoReturn
    /\ start = IdleStart
    /\ op = NoOp
    /\ report = <<>>
    /\ decoded = <<>>
    /\ construct = <<>>

(* ----------------------- caller goroutine: Call ------------------------ *)

\* Mutant of Rejects: send goes on whatever the flag reads.
RejectsNever(flag) == FALSE

\* client.go:195  if !c.isConnected.Load() { return waiter{}, ErrClosed }
Rejects(flag) == ~flag

\* Client.Call entered with a fresh id; send loads the flag (client.go:177, 195-197).
\* Rejected: Call returns ErrClosed at once. Otherwise send goes on.
CallSend(c) ==
    /\ Running
    /\ FirstIdle(CallerSeq, caller, c)
    /\ nextId < MaxCalls
    /\ nextId' = nextId + 1
    /\ IF Rejects(isConnected)
       THEN /\ result' = Append(result, ErrClosed)
            /\ UNCHANGED caller
       ELSE /\ result' = Append(result, Outstanding)
            /\ caller' = [caller EXCEPT ![c] =
                  [IdleCaller EXCEPT !.pc = "insert", !.id = nextId + 1]]
    /\ UNCHANGED <<isConnected, pending, mu, calls, events, engine, crashed>>
    /\ UNCHANGED <<fromAppRet, start, op, report, decoded, construct>>

\* An OnLogout is between its store of the flag and its return.
Draining(e) == engine[e].pc \in {"lo_range", "lo_send", "lo_close"}

\* Mutant of SendInsert: the call is made and the request goes to the engine
\* without the call having been put in the table.
SendInsertUnregistered(c) ==
    /\ Running
    /\ caller[c].pc = "insert"
    /\ calls' = Append(calls, NewCall(caller[c].id))
    /\ caller' = [caller EXCEPT ![c].pc = "Send", ![c].cc = Len(calls) + 1,
                                ![c].at = IF isConnected THEN "connected"
                                          ELSE IF \E e \in Engines : Draining(e)
                                               THEN "draining" ELSE "drained"]
    /\ UNCHANGED <<isConnected, pending, mu, nextId, events, engine, crashed, result>>
    /\ UNCHANGED <<fromAppRet, start, op, report, decoded, construct>>

\* client.go:200-201  cc := &call{...}; c.pending[id] = cc   (c.mu is NOT held)
SendInsert(c) ==
    /\ Running
    /\ caller[c].pc = "insert"
    /\ calls' = Append(calls, NewCall(caller[c].id))
    /\ pending' = MapPut(pending, caller[c].id, Len(calls) + 1)
    /\ caller' = [caller EXCEPT ![c].pc = "Send", ![c].cc = Len(calls) + 1,
                                ![c].at = IF isConnected THEN "connected"
                                          ELSE IF \E e \in Engines : Draining(e)
                                               THEN "draining" ELSE "drained"]
    /\ UNCHANGED <<isConnected, mu, nextId, events, engine, crashed, result>>
    /\ UNCHANGED <<fromAppRet, start, op, report, decoded, construct>>

\* client.go:203  quickfix.Send(msg) has been called with the request of call k
\* (history).
Handed(k) == [calls[k] EXCEPT !.handed = calls[k].handed + 1]

\* client.go:203, 210  quickfix.Send(msg) accepted the message: return waiter{cc}, nil;
\* Call goes on to call.wait(ctx).
SendOk(c) ==
    /\ Running
    /\ caller[c].pc = "Send"
    /\ calls' = [calls EXCEPT ![caller[c].cc] =
          [Handed(caller[c].cc) EXCEPT !.sendOK = TRUE]]
    /\ caller' = [caller EXCEPT ![c].pc = "wait"]
    /\ UNCHANGED <<isConnected, pending, mu, nextId, events, engine, crashed, result>>
    /\ UNCHANGED <<fromAppRet, start, op, report, decoded, construct>>

\* client.go:203-204  quickfix.Send(msg) returned an error; c.mu.Lock()
SendFail(c) ==
    /\ Running
    /\ caller[c].pc = "Send"
    /\ mu = "free"
    /\ mu' = c
    /\ calls' = [calls EXCEPT ![caller[c].cc] = Handed(caller[c].cc)]
    /\ caller' = [caller EXCEPT ![c].pc = "delete"]
    /\ UNCHANGED <<isConnected, pending, nextId, events, engine, crashed, result>>
    /\ UNCHANGED <<fromAppRet, start, op, report, decoded, construct>>

\* Mutant of SendFailDelete: the failed send returns the error and leaves the
\* entry it registered in the table.
SendFailKeeps(c) ==
    /\ Running
    /\ caller[c].pc = "delete"
    /\ mu = c
    /\ mu' = "free"
    /\ caller' = [caller EXCEPT ![c] = IdleCaller]
    /\ result' = [result EXCEPT ![caller[c].id] = ErrSend]
    /\ UNCHANGED <<isConnected, pending, calls, nextId, events, engine, crashed>>
    /\ UNCHANGED <<fromAppRet, start, op, report, decoded, construct>>

\* Mutant of SendFailDelete: after the cleanup the failed send is tried again
\* instead of being reported.
SendFailRetries(c) ==
    /\ Running
    /\ caller[c].pc = "delete"
    /\ mu = c
    /\ pending' = MapDelete(pending, caller[c].id)
    /\ mu' = "free"
    /\ caller' = [caller EXCEPT ![c].pc = "insert", ![c].cc = NoCall]
    /\ UNCHANGED <<isConnected, calls, nextId, events, engine, crashed, result>>
    /\ UNCHANGED <<fromAppRet, start, op, report, decoded, construct>>

\* client.go:205-207  delete(c.pending, id); c.mu.Unlock(); return waiter{}, err
SendFailDelete(c) ==
    /\ Running
    /\ caller[c].pc = "delete"
    /\ mu = c
    /\ pending' = MapDelete(pending, caller[c].id)
    /\ mu' = "free"
    /\ caller' = [caller EXCEPT ![c] = IdleCaller]
    /\ result' = [result EXCEPT ![caller[c].id] = ErrSend]
    /\ UNCHANGED <<isConnected, calls, nextId, events, engine, crashed>>
    /\ UNCHANGED <<fromAppRet, start, op, report, decoded, construct>>

\* utils.go:108-115  case err, ok := <-w.call.done: a value is in the buffer
\* (nil: return w.call.response, nil), or the channel is closed and empty
\* (!ok: return nil, ErrClosed).
WaitDone(c) ==
    LET k == caller[c].cc IN
    /\ Running
    /\ caller[c].pc = "wait"
    /\ calls[k].buf # <<>> \/ calls[k].closed
    /\ LET err == IF calls[k].buf # <<>> THEN calls[k].buf[1] ELSE ErrClosed IN
       /\ caller' = [caller EXCEPT ![c] = IdleCaller]
       /\ result' = [result EXCEPT ![caller[c].id] = err]
       /\ calls' = SetCall(k, "buf", <<>>)
    /\ UNCHANGED <<isConnected, pending, mu, nextId, events, engine, crashed>>
    /\ UNCHANGED <<fromAppRet, start, op, report, decoded, construct>>

\* Mutant of WaitCtxDone: the caller whose context is done takes its own
\* entry out of the table before it returns.
WaitCtxDoneRemoves(c) ==
    /\ Running
    /\ caller[c].pc = "wait"
    /\ mu = "free"
    /\ pending' = MapDelete(pending, caller[c].id)
    /\ caller' = [caller EXCEPT ![c] = IdleCaller]
    /\ result' = [result EXCEPT ![caller[c].id] = ErrCtx]
    /\ UNCHANGED <<isConnected, mu, calls, nextId, events, engine, crashed>>
    /\ UNCHANGED <<fromAppRet, start, op, report, decoded, construct>>

\* utils.go:116-117  case <-ctx.Done(): return nil, ctx.Err()
\* The context may be done at any moment of the wait.
WaitCtxDone(c) ==
    /\ Running
    /\ caller[c].pc = "wait"
    /\ caller' = [caller EXCEPT ![c] = IdleCaller]
    /\ result' = [result EXCEPT ![caller[c].id] = ErrCtx]
    /\ UNCHANGED <<isConnected, pending, mu, calls, nextId, events, engine, crashed>>
    /\ UNCHANGED <<fromAppRet, start, op, report, decoded, construct>>

(* ------------------ session goroutine: the callbacks ------------------- *)

\* interface.go:16-19  c.isConnected.Store(true)
OnLogon(e) ==
    /\ Running
    /\ FirstIdle(EngineSeq, engine, e)
    /\ isConnected' = TRUE
    /\ UNCHANGED <<pending, mu, calls, nextId, events, caller, engine, crashed, result>>
    /\ UNCHANGED <<fromAppRet, start, op, report, decoded, construct>>

\* The call objects that are entries of the table.
Entries == {pending[i] : i \in DOMAIN pending}

\* interface.go:29-31  c.isConnected.Store(false); the range over c.pending begins.
OnLogout(e) ==
    /\ Running
    /\ FirstIdle(EngineSeq, engine, e)
    /\ events < MaxEvents
    /\ events' = events + 1
    /\ isConnected' = FALSE
    /\ engine' = [engine EXCEPT ![e] =
          [IdleEngine EXCEPT !.pc = "lo_range", !.snap = Entries]]
    /\ UNCHANGED <<pending, mu, calls, nextId, caller, crashed, result>>
    /\ UNCHANGED <<fromAppRet, start, op, report, decoded, construct>>

\* The table after the range loop has handled the entry under id.
\* interface.go:31-34: the loop body has no delete.
AfterVisit(m, id) == m

\* interface.go:31  for _, call := range c.pending: the next entry (c.mu is NOT
\* held). Go produces the entries in any order, each entry that stays in the
\* map once; an entry inserted during the loop may be produced or skipped.
OnLogoutNext(e) ==
    /\ Running
    /\ engine[e].pc = "lo_range"
    /\ \E id \in (DOMAIN pending) \ engine[e].seen :
          /\ engine' = [engine EXCEPT ![e].pc = "lo_send", ![e].cur = pending[id],
                                      ![e].seen = engine[e].seen \cup {id}]
          /\ pending' = AfterVisit(pending, id)
    /\ UNCHANGED <<isConnected, mu, calls, nextId, events, caller, crashed, result>>
    /\ UNCHANGED <<fromAppRet, start, op, report, decoded, construct>>

\* interface.go:31, 35  the range is exhausted: OnLogout returns.
OnLogoutReturn(e) ==
    /\ Running
    /\ engine[e].pc = "lo_range"
    /\ \A id \in DOMAIN pending : pending[id] \in engine[e].snap => id \in engine[e].seen
    /\ engine' = [engine EXCEPT ![e] = IdleEngine]
    /\ UNCHANGED <<isConnected, pending, mu, calls, nextId, events, caller, crashed, result>>
    /\ UNCHANGED <<fromAppRet, start, op, report, decoded, construct>>

\* client.go:200  make(chan error, 1): the capacity of done.
doneCap == 1

\* Mutant of Room: done has no buffer, a send waits for a receiver.
RoomOfUnbuffered(buf) == FALSE

\* A send on an open channel with this buffer does not block: the buffer has
\* room for the value.
Room(buf) == Len(buf) < doneCap

\* A send on done by the callback cb has been attempted (history).
Attempt(k, cb) ==
    [calls[k] EXCEPT !.sends = calls[k].sends + 1, !.by = calls[k].by \cup {cb}]

\* interface.go:32  call.done <- ErrClosed. On a closed channel the send panics,
\* the deferred recover() (interface.go:23-27) catches it and OnLogout returns
\* with the rest of the table unvisited. On a full open channel it blocks.
OnLogoutSend(e) ==
    LET k == engine[e].cur IN
    /\ Running
    /\ engine[e].pc = "lo_send"
    /\ calls[k].closed \/ Room(calls[k].buf)
    /\ IF calls[k].closed
       THEN /\ calls' = [calls EXCEPT ![k] = Attempt(k, "OnLogout")]
            /\ engine' = [engine EXCEPT ![e] = IdleEngine]
       ELSE /\ calls' = [calls EXCEPT ![k] =
                  [Attempt(k, "OnLogout") EXCEPT !.buf = <<ErrClosed>>]]
            /\ engine' = [engine EXCEPT ![e].pc = "lo_close"]
    /\ UNCHANGED <<isConnected, pending, mu, nextId, events, caller, crashed, result>>
    /\ UNCHANGED <<fromAppRet, start, op, report, decoded, construct>>

\* interface.go:33  close(call.done); closing a closed channel panics (recovered).
OnLogoutClose(e) ==
    LET k == engine[e].cur IN
    /\ Running
    /\ engine[e].pc = "lo_close"
    /\ IF calls[k].closed
       THEN /\ engine' = [engine EXCEPT ![e] = IdleEngine]
            /\ UNCHANGED calls
       ELSE /\ calls' = SetCall(k, "closed", TRUE)
            /\ engine' = [engine EXCEPT ![e].pc = "lo_range", ![e].cur = NoCall]
    /\ UNCHANGED <<isConnected, pending, mu, nextId, events, caller, crashed, result>>
    /\ UNCHANGED <<fromAppRet, start, op, report, decoded, construct>>

\* Message types that mappedMsgTypeTag maps to a request-id tag: the limit
\* response (tag 6136) and the execution report (ClOrdID).
msgType_LIMIT_RESPONSE == "XLR"
MsgType_EXECUTION_REPORT == "8"
MappedTypes == {msgType_LIMIT_RESPONSE, MsgType_EXECUTION_REPORT}

\* part_002:12  tagGetLimitReqID; part_002:33  tag.ClOrdID of quickfix (FIX tag 11).
tagGetLimitReqID == 6136
tag_ClOrdID == 11

\* part_002:31-34  mappedMsgTypeTag
mappedMsgTypeTag ==
    [t \in MappedTypes |->
        IF t = msgType_LIMIT_RESPONSE THEN tagGetLimitReqID ELSE tag_ClOrdID]

\* A message type the map does not hold (market data snapshot), and a message
\* whose header has no MsgType.
MsgType_MARKET_DATA == "W"
NoType == "<no MsgType>"

\* The request-id tag of the message's type is not set in its body.
AbsentId == -1

\* An inbound limit response that carries id in its request-id tag. The ids
\* are those handed to Call so far and NoId.
Inbound == [type : {msgType_LIMIT_RESPONSE}, id : 0..nextId]

\* An inbound application message of any shape.
InboundAll ==
    [type : MappedTypes \cup {MsgType_MARKET_DATA, NoType},
     id : {AbsentId} \cup (0..nextId)]

ErrNoMsgType == "Conditionally Required Field Missing (35)"
ErrInvalidRequestIDTag == "request id tag not found"
ErrNoReqID == "Conditionally Required Field Missing (request id)"

\* Mutant of getReqIDTagFromMsgType: every message type has a request-id tag.
getReqIDTagOfAnyType(msgType) == Nil

\* part_002:36-42  getReqIDTagFromMsgType: the error it returns, nil for a
\* mapped type.
getReqIDTagFromMsgType(msgType) ==
    IF msgType \in MappedTypes THEN Nil ELSE ErrInvalidRequestIDTag

\* part_002:36-42  getReqIDTagFromMsgType: the tag it returns, 0 with the error.
reqIDTag(msgType) ==
    IF msgType \in DOMAIN mappedMsgTypeTag THEN mappedMsgTypeTag[msgType] ELSE 0

\* Mutant of OnUnknownType: the error of the lookup of the tag is returned to
\* the engine.
OnUnknownTypeFails(err2) == err2

\* interface.go:71-74  if err2 != nil { c.l.Warnw(...); return nil }
OnUnknownType(err2) == Nil

\* Mutant of OnMissingReqID: the message is dropped without an error.
OnMissingReqIDDrops(err) == Nil

\* interface.go:77-80  if err != nil { c.l.Errorw(...); return err }
OnMissingReqID(err) == err

\* interface.go:64-80  what FromApp returns before it locks the mutex:
\* the error of msg.MsgType(), nil for a type without request-id tag, the
\* error of msg.Body.GetString(reqIDTag); LooksUp when it returns none of them.
LooksUp == "looks up"
BeforeLookup(msg) ==
    IF msg.type = NoType THEN ErrNoMsgType
    ELSE IF getReqIDTagFromMsgType(msg.type) # Nil
         THEN OnUnknownType(getReqIDTagFromMsgType(msg.type))
    ELSE IF msg.id = AbsentId THEN OnMissingReqID(ErrNoReqID)
    ELSE LooksUp

\* interface.go:62-80  FromApp returns before the lookup: nothing of the
\* client is touched.
FromAppEarly(e, msg) ==
    /\ Running
    /\ FirstIdle(EngineSeq, engine, e)
    /\ events < MaxEvents
    /\ BeforeLookup(msg) # LooksUp
    /\ events' = events + 1
    /\ fromAppRet' = [n |-> events + 1, msg |-> msg, ret |-> BeforeLookup(msg),
                      pend |-> DOMAIN pending]
    /\ UNCHANGED <<isConnected, pending, mu, calls, nextId, caller, engine, crashed,
                   result, start, op, report, decoded, construct>>

\* interface.go:62-82  FromApp reads type, tag and id of msg; c.mu.Lock()
FromApp(e, msg) ==
    /\ Running
    /\ BeforeLookup(msg) = LooksUp
    /\ FirstIdle(EngineSeq, engine, e)
    /\ events < MaxEvents
    /\ events' = events + 1
    /\ mu = "free"
    /\ mu' = e
    /\ engine' = [engine EXCEPT ![e] = [IdleEngine EXCEPT !.pc = "fa_take", !.msg = msg]]
    /\ UNCHANGED <<isConnected, pending, calls, nextId, caller, crashed, result>>
    /\ UNCHANGED <<fromAppRet, start, op, report, decoded, construct>>

\* Mutant of TakeEntry: FromApp looks the call up and leaves it in the table.
TakeEntryKeep(m, id) == m

\* Mutant of TakeEntry: FromApp empties the table when it takes a call.
TakeEntryClears(m, id) == <<>>

\* interface.go:84  delete(c.pending, id)
TakeEntry(m, id) == MapDelete(m, id)

\* interface.go:83-87  call := c.pending[id]; delete(c.pending, id); c.mu.Unlock();
\* if call != nil { ... }. History: taken counts the times the call was found.
FromAppTake(e) ==
    LET id == engine[e].msg.id
        k  == MapGet(pending, id)
    IN
    /\ Running
    /\ engine[e].pc = "fa_take"
    /\ mu = e
    /\ pending' = TakeEntry(pending, id)
    /\ mu' = "free"
    /\ IF k # NoCall
       THEN /\ engine' = [engine EXCEPT ![e].pc = "fa_send", ![e].cur = k]
            /\ calls' = SetCall(k, "taken", calls[k].taken + 1)
       ELSE /\ engine' = [engine EXCEPT ![e] = IdleEngine]
            /\ UNCHANGED calls
    /\ UNCHANGED <<isConnected, nextId, events, caller, crashed, result>>
    /\ UNCHANGED <<fromAppRet, start, op, report, decoded, construct>>

\* Mutant of copyMessage: the copy comes back empty.
copyMessageEmpty(msg) == NoMsg

\* utils.go:86-93  copyMessage: a new message parsed from msg.String(), equal
\* to msg field by field.
copyMessage(msg) == [type |-> msg.type, id |-> msg.id]

\* interface.go:95-100  response, err2 := copyMessage(msg); call.response = response;
\* call.done <- nil. FromApp has no recover: a send on a closed channel panics
\* and the process dies. On a full open channel the send blocks.
FromAppSend(e) ==
    LET k == engine[e].cur IN
    /\ Running
    /\ engine[e].pc = "fa_send"
    /\ calls[k].closed \/ Room(calls[k].buf)
    /\ IF calls[k].closed
       THEN /\ calls' = [calls EXCEPT ![k] =
                  [Attempt(k, "FromApp") EXCEPT !.response = copyMessage(engine[e].msg)]]
            /\ crashed' = "panic: send on closed channel"
            /\ UNCHANGED engine
       ELSE /\ calls' = [calls EXCEPT ![k] =
                  [Attempt(k, "FromApp") EXCEPT !.response = copyMessage(engine[e].msg),
                                                !.buf = <<Nil>>]]
            /\ engine' = [engine EXCEPT ![e].pc = "fa_close"]
            /\ UNCHANGED crashed
    /\ UNCHANGED <<isConnected, pending, mu, nextId, events, caller, result>>
    /\ UNCHANGED <<fromAppRet, start, op, report, decoded, construct>>

\* interface.go:96-98  copyMessage failed: c.l.Fatalw logs and exits the process.
FromAppCopyFail(e) ==
    /\ Running
    /\ engine[e].pc = "fa_send"
    /\ crashed' = "fatal: failed to copy response message"
    /\ UNCHANGED <<isConnected, pending, mu, calls, nextId, events, caller, engine,
                   result>>
    /\ UNCHANGED <<fromAppRet, start, op, report, decoded, construct>>

\* interface.go:101  close(call.done); closing a closed channel panics.
FromAppClose(e) ==
    LET k == engine[e].cur IN
    /\ Running
    /\ engine[e].pc = "fa_close"
    /\ IF calls[k].closed
       THEN /\ crashed' = "panic: close of closed channel"
            /\ UNCHANGED <<calls, engine>>
       ELSE /\ calls' = SetCall(k, "closed", TRUE)
            /\ engine' = [engine EXCEPT ![e] = IdleEngine]
            /\ UNCHANGED crashed
    /\ UNCHANGED <<isConnected, pending, mu, nextId, events, caller, result>>
    /\ UNCHANGED <<fromAppRet, start, op, report, decoded, construct>>

(* ----------------- Start, Stop, IsConnected and ToAdmin ---------------- *)

\* client.go:154  errors.New("logon timed out"); ctx.Err() of a canceled
\* context; the error of c.initiator.Start().
ErrLogonTimeout == "logon timed out"
ErrCanceled == "context canceled"
ErrInitiator == "initiator failed to start"

\* client.go:141-149  Start: c.initiator.Start() fails and Start returns its
\* error, or timeoutCtx is made and the loop begins.
Start(ok) ==
    /\ Running
    /\ start.pc = "idle"
    /\ events < MaxEvents
    /\ events' = events + 1
    /\ start' = IF ok THEN [IdleStart EXCEPT !.pc = "poll"]
                ELSE [IdleStart EXCEPT !.ret = ErrInitiator]
    /\ UNCHANGED <<isConnected, pending, mu, calls, nextId, caller, engine, crashed,
                   result, fromAppRet, op, report, decoded, construct>>

\* While Start polls, its caller cancels ctx (timeoutCtx is its child and is
\* done with it), or the 30 seconds of logonTimeout elapse.
StartCtxDone(why) ==
    /\ Running
    /\ start.pc = "poll"
    /\ start.ctx = "live"
    /\ start' = [start EXCEPT !.ctx = why]
    /\ UNCHANGED <<isConnected, pending, mu, calls, nextId, events, caller, engine,
                   crashed, result, fromAppRet, op, report, decoded, construct>>

\* client.go:153-154  case <-timeoutCtx.Done(): return errors.New("logon timed out")
TimeoutCtxErr(ctx) == ErrLogonTimeout

\* client.go:151-161  one round of the loop: timeoutCtx is done and Start
\* returns the error; or IsConnected() is true and Start returns nil; or it
\* sleeps 10 ms and goes round again.
StartPoll ==
    /\ Running
    /\ start.pc = "poll"
    /\ start' = IF start.ctx # "live"
                THEN [start EXCEPT !.pc = "idle", !.ret = TimeoutCtxErr(start.ctx)]
                ELSE IF isConnected
                     THEN [start EXCEPT !.pc = "idle", !.ret = Nil, !.saw = TRUE]
                     ELSE start
    /\ UNCHANGED <<isConnected, pending, mu, calls, nextId, events, caller, engine,
                   crashed, result, fromAppRet, op, report, decoded, construct>>

\* The record of the operation name that ran as the next event and returned
\* (or set) ret.
OpRecord(name, ret) ==
    [n |-> events + 1, name |-> name, ret |-> ret, lock |-> mu, pend |-> DOMAIN pending]

\* Mutant of Stop: Stop empties the pending table itself.
StopDrains ==
    /\ Running
    /\ events < MaxEvents
    /\ events' = events + 1
    /\ op' = OpRecord("Stop", "stop requested")
    /\ pending' = <<>>
    /\ UNCHANGED <<isConnected, mu, calls, nextId, caller, engine, crashed, result,
                   fromAppRet, start, report, decoded, construct>>

\* Mutant of Stop: Stop marks the client as disconnected itself.
StopClearsFlag ==
    /\ Running
    /\ events < MaxEvents
    /\ events' = events + 1
    /\ op' = OpRecord("Stop", "stop requested")
    /\ isConnected' = FALSE
    /\ UNCHANGED <<pending, mu, calls, nextId, caller, engine, crashed, result,
                   fromAppRet, start, report, decoded, construct>>

\* client.go:169-171  Stop: c.initiator.Stop(), and nothing else.
Stop ==
    /\ Running
    /\ events < MaxEvents
    /\ events' = events + 1
    /\ op' = OpRecord("Stop", "stop requested")
    /\ UNCHANGED <<isConnected, pending, mu, calls, nextId, caller, engine, crashed,
                   result, fromAppRet, start, report, decoded, construct>>

\* The flag as IsConnected returns it.
Bool(b) == IF b THEN "true" ELSE "false"

\* client.go:164-166  IsConnected: return c.isConnected.Load(); c.mu is not
\* taken.
IsConnected ==
    /\ Running
    /\ events < MaxEvents
    /\ events' = events + 1
    /\ op' = OpRecord("IsConnected", Bool(isConnected))
    /\ UNCHANGED <<isConnected, pending, mu, calls, nextId, caller, engine, crashed,
                   result, fromAppRet, start, report, decoded, construct>>

\* interface.go:38-47  ToAdmin: sets RawData, Username, ResetSeqNumFlag,
\* MessageHandling and ResponseMode on the outgoing admin message; no field
\* of the client is written.
ToAdmin(e) ==
    /\ Running
    /\ FirstIdle(EngineSeq, engine, e)
    /\ events < MaxEvents
    /\ events' = events + 1
    /\ op' = OpRecord("ToAdmin", "logon fields set")
    /\ UNCHANGED <<isConnected, pending, mu, calls, nextId, caller, engine, crashed,
                   result, fromAppRet, start, report, decoded, construct>>

(* ------------------------------ NewClient ------------------------------ *)

\* client.go:81-95  the global settings NewClient reads, in the order in
\* which it reads them.
RequiredSettings == <<"BeginString", "TargetCompID", "SenderCompID">>

\* What the file at conf.PrivateKeyFilePath may be.
KeyFiles == {"Ed25519 key", "no such file", "no PEM block", "not PKCS8", "RSA key"}

\* The options NewClient may be given (client.go:40-50).
Opts == {"WithMessageHandlingOpt(Unordered)", "WithResponseModeOpt(OnlyAcks)"}

\* The inputs of NewClient: conf.Settings (<<>> is nil, otherwise the global
\* settings that are set), the key file, the options, and whether
\* quickfix.NewInitiator accepts the settings.
Configs ==
    [Settings : {<<>>} \cup {<<st>> : st \in SUBSET {"BeginString", "TargetCompID",
                                                     "SenderCompID"}},
     PrivateKeyFile : KeyFiles,
     opts : SUBSET Opts,
     initiatorOK : BOOLEAN]

\* client.go:77; quickfix's ConditionallyRequiredSetting, the error of
\* Setting(name) for a setting that is not set; utils.go:31-32; the errors of
\* os.Open, x509.ParsePKCS8PrivateKey and quickfix.NewInitiator.
ErrEmptySettings == "empty quickfix settings"
ErrSetting(name) ==
    CASE name = "BeginString" -> "Conditionally Required Setting: BeginString"
      [] name = "TargetCompID" -> "Conditionally Required Setting: TargetCompID"
      [] name = "SenderCompID" -> "Conditionally Required Setting: SenderCompID"
ErrNilPrivateKeyValue == "nil private key value"
ErrInvalidEd25519Key == "invalid key ed25519 key"
ErrOpen == "open: no such file or directory"
ErrPKCS8 == "x509: failed to parse private key"
ErrNewInitiator == "initiator not created"

\* Mutant of GetEd25519PrivateKeyFromFile: whatever the file holds is taken
\* for the key.
GetKeyUnchecked(file) == IF file = "no such file" THEN ErrOpen ELSE Nil

\* utils.go:36-68  GetEd25519PrivateKeyFromFile and ParseEd25519PrivateKey:
\* the error returned, nil for an Ed25519 key in a PKCS8 "PRIVATE KEY" block.
GetEd25519PrivateKeyFromFile(file) ==
    CASE file = "no such file" -> ErrOpen
      [] file = "no PEM block" -> ErrNilPrivateKeyValue
      [] file = "not PKCS8" -> ErrPKCS8
      [] file = "RSA key" -> ErrInvalidEd25519Key
      [] OTHER -> Nil

\* client.go:76-101  the checks of NewClient before anything is built: the
\* error of the first one that fails, nil when all pass.
NewClientChecks(conf) ==
    IF conf.Settings = <<>> THEN ErrEmptySettings
    ELSE LET unset == {i \in DOMAIN RequiredSettings :
                          RequiredSettings[i] \notin conf.Settings[1]}
             first == CHOOSE i \in unset : \A j \in unset : i <= j
         IN  IF unset # {} THEN ErrSetting(RequiredSettings[first])
             ELSE GetEd25519PrivateKeyFromFile(conf.PrivateKeyFile)

\* client.go:30-36, 103-106  defaultOpts() with the options applied.
OptionsOf(opts) ==
    [messageHandling |-> IF "WithMessageHandlingOpt(Unordered)" \in opts
                         THEN "Unordered" ELSE "Sequential",
     responseMode |-> IF "WithResponseModeOpt(OnlyAcks)" \in opts
                      THEN "OnlyAcks" ELSE "Everything"]

\* client.go:74-130  NewClient up to its call of Start: a failed check returns
\* its error with no client built; otherwise the client is built and
\* quickfix.NewInitiator is called, whose error is returned too. client is
\* whether NewClient returned the client, initiator whether the engine exists.
NewClient(conf) ==
    /\ Running
    /\ construct = <<>>
    /\ construct' =
          <<IF NewClientChecks(conf) # Nil
            THEN [conf |-> conf, pc |-> "returned", err |-> NewClientChecks(conf),
                  client |-> FALSE, initiator |-> "none", options |-> OptionsOf({})]
            ELSE IF ~conf.initiatorOK
            THEN [conf |-> conf, pc |-> "returned", err |-> ErrNewInitiator,
                  client |-> FALSE, initiator |-> "none", options |-> OptionsOf(conf.opts)]
            ELSE [conf |-> conf, pc |-> "Start", err |-> "none",
                  client |-> FALSE, initiator |-> "created",
                  options |-> OptionsOf(conf.opts)]>>
    /\ UNCHANGED <<isConnected, pending, mu, calls, nextId, events, caller, engine,
                   crashed, result, fromAppRet, start, op, report, decoded>>

\* NewClient is at its call of client.Start (client.go:132).
InStart == construct # <<>> /\ construct[1].pc = "Start"

\* client.go:132-138  Start has returned: its error and no client, or the
\* client.
NewClientReturn ==
    /\ Running
    /\ InStart
    /\ start.pc = "idle"
    /\ start.ret # "none"
    /\ construct' = <<[construct[1] EXCEPT !.pc = "returned", !.err = start.ret,
                                           !.client = (start.ret = Nil)]>>
    /\ UNCHANGED <<isConnected, pending, mu, calls, nextId, events, caller, engine,
                   crashed, result, fromAppRet, start, op, report, decoded>>

(* ------------------- decoding on a caller goroutine -------------------- *)

\* part_000:120  order, err := decodeExecutionReport(resp)
Decode ==
    /\ Len(decoded) < Len(report)
    /\ decoded' = Append(decoded, decodeExecutionReport(report[Len(decoded) + 1]))
    /\ UNCHANGED <<isConnected, pending, mu, calls, nextId, events, caller, engine,
                   crashed, result, fromAppRet, start, op, report, construct>>

(* --------------------- unsynchronized map accesses --------------------- *)

\* The thread's next step writes c.pending: client.go:201 (no lock),
\* client.go:205 and interface.go:83-84 (under c.mu).
MapWrite(t) ==
    \/ t \in Callers /\ caller[t].pc \in {"insert", "delete"}
    \/ t \in Engines /\ engine[t].pc = "fa_take"

\* The thread's next step reads c.pending: interface.go:31 (no lock).
MapRead(t) == t \in Engines /\ engine[t].pc = "lo_range"

\* Two threads are about to access the map, one of them to write it.
Race ==
    \E t1, t2 \in Threads :
        t1 # t2 /\ MapWrite(t1) /\ (MapWrite(t2) \/ MapRead(t2))

\* The Go runtime detects the concurrent map access and kills the process
\* ("fatal error: concurrent map writes" / "concurrent map iteration and map
\* write"); when it does not, the accesses take effect one after the other,
\* which is what the other actions do.
RaceFatal ==
    /\ Running
    /\ Race
    /\ crashed' = "fatal error: concurrent map access"
    /\ UNCHANGED <<isConnected, pending, mu, calls, nextId, events, caller, engine,
                   result>>
    /\ UNCHANGED <<fromAppRet, start, op, report, decoded, construct>>

(* --------------------------- specification ---------------------------- *)

\* The steps of the caller goroutine c.
CallerStep(c) ==
    \/ CallSend(c)
    \/ SendInsert(c)
    \/ SendOk(c)
    \/ SendFail(c)
    \/ SendFailDelete(c)
    \/ WaitDone(c)
    \/ WaitCtxDone(c)

\* The steps of an inbound application message on the session goroutine e.
InboundStep(e) ==
    \/ \E msg \in Inbound : FromApp(e, msg)
    \/ FromAppTake(e)
    \/ FromAppSend(e)
    \/ FromAppCopyFail(e)
    \/ FromAppClose(e)

\* The steps of a logout on the session goroutine e.
LogoutStep(e) ==
    \/ OnLogout(e)
    \/ OnLogoutNext(e)
    \/ OnLogoutReturn(e)
    \/ OnLogoutSend(e)
    \/ OnLogoutClose(e)

\* One session: quickfix runs the callbacks of a session one after the other
\* on the goroutine of that session, concurrently with the callers.
Next ==
    \/ \E c \in Callers : CallerStep(c)
    \/ OnLogon(EngineSeq[1])
    \/ LogoutStep(EngineSeq[1])
    \/ InboundStep(EngineSeq[1])
    \/ RaceFatal

Spec == Init /\ [][Next]_vars

\* Several sessions that stay logged on: their inbound messages reach FromApp
\* on different goroutines at the same time.
NextPar ==
    \/ \E c \in Callers : CallerStep(c)
    \/ \E e \in Engines : OnLogon(e) \/ InboundStep(e)
    \/ RaceFatal

SpecPar == Init /\ [][NextPar]_vars

\* One caller goroutine and one session that stays logged on, with inbound
\* messages of every shape: of a type with or without request-id tag, with
\* or without the tag set.
InboundAllStep(e) ==
    \/ \E msg \in InboundAll : FromAppEarly(e, msg) \/ FromApp(e, msg)
    \/ FromAppTake(e)
    \/ FromAppSend(e)
    \/ FromAppCopyFail(e)
    \/ FromAppClose(e)

NextInbound ==
    \/ CallerStep(CallerSeq[1])
    \/ OnLogon(EngineSeq[1])
    \/ InboundAllStep(EngineSeq[1])
    \/ RaceFatal

SpecInbound == Init /\ [][NextInbound]_vars

\* The whole client on one caller goroutine and one session: Call, the
\* callbacks of the session, and Start, Stop and IsConnected called by the
\* application at any moment.
LifeStep ==
    \/ \E ok \in BOOLEAN : Start(ok)
    \/ \E why \in {"canceled", "deadline"} : StartCtxDone(why)
    \/ StartPoll
    \/ Stop
    \/ IsConnected

NextLife ==
    \/ CallerStep(CallerSeq[1])
    \/ OnLogon(EngineSeq[1])
    \/ LogoutStep(EngineSeq[1])
    \/ InboundStep(EngineSeq[1])
    \/ ToAdmin(EngineSeq[1])
    \/ LifeStep
    \/ RaceFatal

SpecLife == Init /\ [][NextLife]_vars

\* The decoder alone: a response of any shape is handed to
\* decodeExecutionReport.
InitDecode ==
    /\ isConnected = FALSE
    /\ pending = <<>>
    /\ mu = "free"
    /\ calls = <<>>
    /\ nextId = 0
    /\ events = 0
    /\ caller = [c \in Callers |-> IdleCaller]
    /\ engine = [e \in Engines |-> IdleEngine]
    /\ crashed = "no"
    /\ result = <<>>
    /\ fromAppRet = NoReturn
    /\ start = IdleStart
    /\ op = NoOp
    /\ \E present \in SUBSET ReportFields :
          \E other \in SUBSET (present \cap DOMAIN OtherValue) :
              report = <<ReportOf(present, other)>>
    /\ decoded = <<>>
    /\ construct = <<>>

NextDecode == Decode

SpecDecode == InitDecode /\ [][NextDecode]_vars

\* One caller goroutine and one session: the Calls of a client follow one
\* another, each against the callbacks of the session.
NextOne ==
    \/ CallerStep(CallerSeq[1])
    \/ OnLogon(EngineSeq[1])
    \/ LogoutStep(EngineSeq[1])
    \/ InboundStep(EngineSeq[1])
    \/ RaceFatal

SpecOne == Init /\ [][NextOne]_vars

\* The construction of the client: NewClient with any configuration, its
\* call of Start, and the logon of the session once the engine runs.
NextNew ==
    \/ \E conf \in Configs : NewClient(conf)
    \/ InStart /\ start.ret = "none" /\ \E ok \in BOOLEAN : Start(ok)
    \/ \E why \in {"canceled", "deadline"} : StartCtxDone(why)
    \/ StartPoll
    \/ start.pc = "poll" /\ OnLogon(EngineSeq[1])
    \/ NewClientReturn

SpecNew == Init /\ [][NextNew]_vars

(* ------------------------------ claims -------------------------------- *)

\* The caller of call k has left wait on its context.
Canceled(k) == result[calls[k].id] = ErrCtx

\* A caller is blocked in wait on call k, which it inserted at the moment at.
Waiting(k, at) ==
    \E c \in Callers : caller[c].pc = "wait" /\ caller[c].cc = k /\ caller[c].at = at

\* Engine e leaves OnLogout in this step (it returns, or recover() ends it).
LogoutEnds(e) == Draining(e) /\ engine'[e].pc = "idle"

\* C1: at-most-one delivery. Of all the inbound messages that carry the id of
\* a call, FromApp finds the call in the pending table for at most one; every
\* other one finds no entry.
C1_AtMostOneDelivery == \A k \in CallNums : calls[k].taken <= 1

\* A call that FromApp delivered and signaled, and a later message with its
\* id that is at its lookup, under the mutex, with no entry to find.
C1_Witness ==
    \E k \in CallNums :
        /\ calls[k].taken = 1
        /\ calls[k].sends = 1
        /\ calls[k].by = {"FromApp"}
        /\ \E e \in Engines :
              /\ engine[e].pc = "fa_take"
              /\ engine[e].msg.id = calls[k].id
              /\ MapGet(pending, calls[k].id) = NoCall

\* C2: no orphaned calls. Whenever the flag reads false and no OnLogout is
\* running, no caller is blocked in wait on a call that was registered while
\* the session was connected and that nobody has signaled or taken since.
C2_NoOrphanedCalls ==
    (~isConnected /\ \A e \in Engines : ~Draining(e)) =>
        \A k \in CallNums :
            ~(Waiting(k, "connected") /\ calls[k].sends = 0 /\ calls[k].taken = 0)

\* C3: registration racing with a drain. No caller is blocked in wait on a
\* call that was inserted while the flag read false and no OnLogout was
\* ranging over the table, and that is still in the table, unsignaled.
C3_NoInsertAfterDrain ==
    \A k \in CallNums :
        ~(Waiting(k, "drained") /\ InTable(k) /\ calls[k].sends = 0)

\* C4: the done channel of a call is sent on at most once over its lifetime
\* (a send attempted on the closed channel counts).
C4_SignaledAtMostOnce == \A k \in CallNums : calls[k].sends <= 1

\* C5: rejected while disconnected. A Call that loads the flag as false
\* returns ErrClosed at once: the caller does not go on to insert or to hand
\* the message to the engine, and the pending table and the calls are unchanged.
C5_RejectedWhileDisconnected ==
    [][(nextId' # nextId /\ ~isConnected) =>
          /\ result'[nextId'] = ErrClosed
          /\ pending' = pending
          /\ calls' = calls
          /\ caller' = caller]_vars

\* A Call was rejected after the session had been logged on and logged out
\* again, with an earlier call still in the table.
C5_Witness ==
    /\ ~isConnected
    /\ DOMAIN pending # {}
    /\ \E id \in 1..nextId : result[id] = ErrClosed /\ CallOfId(id) = NoCall

\* C6: the drain removes what it signals. When an OnLogout ends, no call that
\* was in the pending table when it started is still in the table.
C6_DrainRemoves ==
    [][\A e \in Engines :
          LogoutEnds(e) => \A k \in engine[e].snap : ~InTable(k)']_vars

\* C7: the delivery path and the termination path never both resolve the same
\* call: no call has had its channel sent on by FromApp and by OnLogout.
C7_OneResolver == \A k \in CallNums : Cardinality(calls[k].by) <= 1

\* C8: every access to the pending table is made under the mutex: never are
\* two threads about to access the map, one of them writing, at the same time.
C8_MapAccessSerialized == ~Race

\* C9: cancellation safety. A call whose caller returned on its context is
\* signaled at most once by the responses and drains that come afterwards
\* (no second send, no send on its closed channel).
C9_CancellationSafety ==
    \A k \in CallNums : Canceled(k) => calls[k].sends <= 1

\* C10: lifetime of a pending call. A call whose send succeeded is in the
\* table under its id for as long as FromApp has not taken it and OnLogout
\* has not signaled it.
C10_PendingCallLifetime ==
    \A k \in CallNums :
        (calls[k].sendOK /\ calls[k].taken = 0 /\ "OnLogout" \notin calls[k].by)
            => InTable(k)

\* An unresolved call is in the table after its own caller's context was done
\* and after a later Call registered and cleaned up its failed transmit.
C10_Witness ==
    \E k \in CallNums :
        /\ calls[k].sendOK /\ calls[k].taken = 0 /\ calls[k].sends = 0
        /\ InTable(k)
        /\ Canceled(k)
        /\ \E j \in CallNums : j > k /\ result[calls[j].id] = ErrSend

\* C11: transmit-failure cleanup. A Call that returned the error of
\* quickfix.Send has no entry under its id in the pending table, and its
\* caller is not left with a waiter: it has left Call.
C11_TransmitFailureCleanup ==
    \A id \in 1..nextId :
        result[id] = ErrSend =>
            /\ id \notin DOMAIN pending
            /\ \A c \in Callers : caller[c].id # id

\* A Call registered its call, its transmit failed and it returned the error,
\* while the entry of another call stayed in the table.
C11_Witness ==
    \E k \in CallNums :
        /\ result[calls[k].id] = ErrSend
        /\ ~calls[k].sendOK
        /\ ~InTable(k)
        /\ \E j \in CallNums : j # k /\ InTable(j)

\* C17: no automatic retry. For every invocation of Call (every id) at most
\* one call is ever registered, its request is handed to quickfix.Send at
\* most once, and once the Call has returned (an error or a response) no
\* goroutine of the client is still at work on that id.
C17_NoRetry ==
    \A id \in 1..nextId :
        /\ Cardinality({k \in CallNums : calls[k].id = id}) <= 1
        /\ \A k \in CallNums : calls[k].id = id => calls[k].handed <= 1
        /\ result[id] # Outstanding => \A c \in Callers : caller[c].id # id

\* One Call failed in transmit and another was canceled in wait: both were
\* reported, each was registered once and handed over once, and every caller
\* goroutine is idle.
C17_Witness ==
    /\ \A c \in Callers : caller[c].pc = "idle"
    /\ \E j, k \in CallNums :
          /\ result[calls[j].id] = ErrSend /\ calls[j].handed = 1
          /\ result[calls[k].id] = ErrCtx /\ calls[k].handed = 1

\* decodeExecutionReport has returned for the report: Report is the report,
\* Result what the decoder returned for it.
Decoded == decoded # <<>>
Report == report[1]
Result == decoded[1]

\* The report has the fields the decoder cannot do without, and its text is
\* a reason: set and not empty.
HasRequired == \A f \in RequiredFields : Report[f] # NoField
HasReason == Report["Text"] \notin {NoField, ""}

\* The field of the Order that a body field is decoded into, and its zero value.
OrderField(f) == CASE f = "ClOrdID" -> "ClientOrderID" [] f = "MaxFloor" -> "IcebergQuantity"
                   [] OTHER -> f
ZeroOf(f) == CASE f \in {"ClOrdID", "TimeInForce"} -> ""
               [] f \in {"TransactTime", "OrderCreationTime", "WorkingTime"} -> ZeroTime
               [] OTHER -> 0

C20_AbsentOptionalsAreZero ==
    (/\ Decoded
     /\ HasRequired
     /\ ~(Report["OrdStatus"] = "8" /\ HasReason)
     /\ Report["OrderID"] # "1a") =>
        /\ Result.err = "nil"
        /\ \A f \in OptionalFields :
              Report[f] = NoField => Result.order[OrderField(f)] = ZeroOf(f)
        /\ Result.order.Symbol = Report["Symbol"]
        /\ Result.order.Status = (IF Report["OrdStatus"] = "2" THEN "FILLED" ELSE "REJECTED")
        /\ Report["OrderID"] = "12" => Result.order.OrderID = 12
        /\ Report["Price"] = "502" => Result.order.Price = 502
        /\ Report["ClOrdID"] # NoField => Result.order.ClientOrderID = Report["ClOrdID"]

\* FromApp returns before its lookup in this step.
ReturnsEarly == fromAppRet' # fromAppRet

\* The step leaves the pending table, the calls and their channels, the
\* callers and the results of their Calls as they are, and the process alive.
NoCallTouched ==
    /\ pending' = pending
    /\ calls' = calls
    /\ caller' = caller
    /\ result' = result
    /\ crashed' = crashed

\* A caller is blocked in wait on an unsignaled call that was in the table
\* when the last FromApp returned early, and that is still there.
WaitsThrough(k) ==
    /\ \E c \in Callers : caller[c].pc = "wait" /\ caller[c].cc = k
    /\ calls[k].id \in fromAppRet.pend
    /\ InTable(k)
    /\ calls[k].sends = 0

\* C12: unknown message category. A FromApp for a message whose type is not
\* in the message-type-to-tag map returns nil, leaves the pending table
\* unchanged and signals no call.
C12_UnknownTypeIgnored ==
    [][(ReturnsEarly /\ fromAppRet'.msg.type \notin MappedTypes \cup {NoType}) =>
          fromAppRet'.ret = Nil /\ NoCallTouched]_vars

\* A message of an unmapped type that carried the id of a pending call was
\* ignored: FromApp returned nil and the call is still pending, its caller
\* waiting.
C12_Witness ==
    /\ fromAppRet.msg.type = MsgType_MARKET_DATA
    /\ fromAppRet.ret = Nil
    /\ \E k \in CallNums : WaitsThrough(k) /\ fromAppRet.msg.id = calls[k].id

\* C13: a malformed inbound message is contained. A FromApp for a message
\* whose type is mapped to a request-id tag that the message does not carry
\* returns an error to the engine, leaves the pending table unchanged and
\* signals no pending call.
C13_MalformedContained ==
    [][(ReturnsEarly /\ fromAppRet'.msg.type \in MappedTypes
                     /\ fromAppRet'.msg.id = AbsentId) =>
          fromAppRet'.ret = ErrNoReqID /\ NoCallTouched]_vars

\* An execution report without ClOrdID arrived while a call was pending:
\* FromApp returned the error and the call is still pending, its caller
\* waiting.
C13_Witness ==
    /\ fromAppRet.msg = [type |-> MsgType_EXECUTION_REPORT, id |-> AbsentId]
    /\ fromAppRet.ret = ErrNoReqID
    /\ \E k \in CallNums : WaitsThrough(k)

\* Start has gone into its loop and has returned from it.
StartReturned == start.pc = "idle" /\ start.ret \notin {"none", ErrInitiator}

\* C14: Start outcomes. Once the engine is started, Start returns nil only
\* after it has read the flag as true; if the 30 seconds elapse first it
\* returns the logon-timeout error; if the caller's context is canceled first
\* it returns the cancellation error of the context, which is not the
\* timeout error.
C14_StartOutcomes ==
    StartReturned =>
        /\ start.ret = Nil => start.saw
        /\ start.ctx = "live" => start.ret = Nil
        /\ start.ctx = "deadline" => start.ret = ErrLogonTimeout
        /\ start.ctx = "canceled" => start.ret = ErrCanceled /\ start.ret # ErrLogonTimeout

\* The step is a step of OnLogon: nothing but the flag changes.
OnLogonStep ==
    UNCHANGED <<pending, mu, calls, nextId, events, caller, engine, crashed, result,
                fromAppRet, start, op, report, decoded, construct>>

\* The step is the first step of OnLogout on a session goroutine: no caller,
\* no Start, no Stop, IsConnected or ToAdmin moves with it.
OnLogoutStep ==
    /\ \E e \in Engines : engine[e].pc = "idle" /\ engine'[e].pc = "lo_range"
    /\ UNCHANGED <<pending, mu, calls, nextId, caller, crashed, result, fromAppRet,
                   start, op, report, decoded, construct>>

\* C15: the connected flag has exactly two writers. Every step that changes
\* the flag is a step of OnLogon (to true) or of OnLogout (to false): no step
\* of Call, send, wait, FromApp, ToAdmin, Start, Stop or IsConnected changes
\* it; and IsConnected returns the value of the flag of that moment, whoever
\* holds the mutex, and leaves the mutex as it is.
C15_FlagWriters ==
    [][/\ isConnected' # isConnected =>
             IF isConnected' THEN OnLogonStep ELSE OnLogoutStep
       /\ (op' # op /\ op'.name = "IsConnected") =>
             /\ op'.ret = Bool(isConnected)
             /\ op'.lock = mu
             /\ mu' = mu]_vars

\* IsConnected returned true while a caller held the mutex (in the cleanup of
\* a failed send), and the flag has been cleared by OnLogout since.
C15_Witness ==
    /\ op.name = "IsConnected"
    /\ op.ret = "true"
    /\ op.lock \in Callers
    /\ ~isConnected
    /\ \E e \in Engines : Draining(e)

\* C16: Stop only requests the shutdown. The step of Stop leaves the pending
\* table and the flag unchanged and signals no call (no channel, no caller
\* and no result changes); the calls pending at that moment are resolved by
\* a later callback of the engine.
C16_StopOnlyRequests ==
    [][(op' # op /\ op'.name = "Stop") =>
          /\ isConnected' = isConnected
          /\ pending' = pending
          /\ calls' = calls
          /\ caller' = caller
          /\ result' = result]_vars

\* A call was pending and unsignaled, the flag true, when Stop ran; the
\* OnLogout that the engine invoked afterwards signaled it and its Call
\* returned ErrClosed.
C16_Witness ==
    /\ op.name = "Stop"
    /\ op.n < events
    /\ \E k \in CallNums :
          /\ calls[k].id \in op.pend
          /\ calls[k].by = {"OnLogout"}
          /\ result[calls[k].id] = ErrClosed

\* C21: message-category to correlation-tag map. getReqIDTagFromMsgType maps
\* the limit response (XLR) to tag 6136 and the execution report (8) to
\* ClOrdID (tag 11), and returns ErrInvalidRequestIDTag for every other type;
\* so no FromApp is ever at its lookup, or in its delivery, with a message of
\* another type, and no call has a response of another type.
C21_TagMap ==
    /\ getReqIDTagFromMsgType("XLR") = Nil /\ reqIDTag("XLR") = 6136
    /\ getReqIDTagFromMsgType("8") = Nil /\ reqIDTag("8") = 11
    /\ \A t \in {MsgType_MARKET_DATA, "XLQ", "D", NoType} :
          getReqIDTagFromMsgType(t) = ErrInvalidRequestIDTag /\ reqIDTag(t) = 0
    /\ \A e \in Engines : engine[e].pc # "idle" => engine[e].msg.type \in {"XLR", "8"}
    /\ \A k \in CallNums :
          calls[k].response # NoMsg => calls[k].response.type \in {"XLR", "8"}

\* An execution report was matched to the first call by its ClOrdID and
\* delivered; a market data message that carried the id of the second call
\* was not matched: that call is still pending, its caller waiting.
C21_Witness ==
    /\ \E j \in CallNums :
          /\ calls[j].response.type = MsgType_EXECUTION_REPORT
          /\ calls[j].response.id = calls[j].id
          /\ result[calls[j].id] = Nil
    /\ fromAppRet.msg.type = MsgType_MARKET_DATA
    /\ \E k \in CallNums : WaitsThrough(k) /\ fromAppRet.msg.id = calls[k].id

\* NewClient has been called with this configuration.
Constructing == construct # <<>>
Conf == construct[1].conf

\* Some required setting is not set; the first one that is not, in an order.
SettingAbsent ==
    Conf.Settings # <<>> /\ Conf.Settings[1] # {"BeginString", "TargetCompID", "SenderCompID"}
FirstAbsent(order) ==
    order[CHOOSE i \in 1..3 :
             /\ order[i] \notin Conf.Settings[1]
             /\ \A j \in 1..(i - 1) : order[j] \in Conf.Settings[1]]

\* The credential cannot be loaded.
KeyUnloadable == Conf.PrivateKeyFile # "Ed25519 key"

\* NewClient returned an error and no client, and the session engine was
\* neither created nor started.
FailedUnbuilt ==
    /\ construct[1].pc = "returned"
    /\ construct[1].err \notin {Nil, "none"}
    /\ ~construct[1].client
    /\ construct[1].initiator = "none"
    /\ start = IdleStart

\* C22 as claimed: when a required setting is absent NewClient fails, its
\* error naming the first absent one in the order BeginString, SenderCompID,
\* TargetCompID; when the settings are there and the credential cannot be
\* loaded it fails too; in both cases no client is returned and the engine is
\* never created or started.
C22_SenderBeforeTarget ==
    Constructing =>
        /\ SettingAbsent =>
              /\ FailedUnbuilt
              /\ construct[1].err =
                    ErrSetting(FirstAbsent(<<"BeginString", "SenderCompID", "TargetCompID">>))
        /\ (Conf.Settings # <<>> /\ KeyUnloadable) => FailedUnbuilt

\* C22 as amended: the same, the first absent setting taken in the order
\* BeginString, TargetCompID, SenderCompID.
C22_TargetBeforeSender ==
    Constructing =>
        /\ SettingAbsent =>
              /\ FailedUnbuilt
              /\ construct[1].err =
                    ErrSetting(FirstAbsent(<<"BeginString", "TargetCompID", "SenderCompID">>))
        /\ (Conf.Settings # <<>> /\ KeyUnloadable) => FailedUnbuilt

\* NewClient was called with settings that have BeginString and neither
\* SenderCompID nor TargetCompID: it named TargetCompID.
C22_Witness ==
    /\ Constructing
    /\ Conf.Settings = <<{"BeginString"}>>
    /\ construct[1].err = "Conditionally Required Setting: TargetCompID"
    /\ FailedUnbuilt

\* The request of the Call with this id is at quickfix.Send or past it: the
\* caller is in the call of quickfix.Send, or the engine has accepted it.
Transmitted(id) ==
    \E k \in CallNums :
        /\ calls[k].id = id
        /\ \/ calls[k].sendOK
           \/ \E c \in Callers : caller[c].cc = k /\ caller[c].pc = "Send"

\* No FromApp has taken a call of this id out of the table.
NeverTaken(id) == \A k \in CallNums : calls[k].id = id => calls[k].taken = 0

\* The session goroutine e does the lookup of FromApp in this step.
LooksUpNow(e) == engine[e].pc = "fa_take" /\ engine'[e].pc # "fa_take"

\* C23: registration precedes transmission. The first lookup that FromApp
\* makes for an id whose request is at quickfix.Send or past it, however
\* early, finds the call of that id in the table and goes on to deliver to
\* it: it is not dropped as unmatched.
C23_RegisteredBeforeSent ==
    [][\A e \in Engines :
          (LooksUpNow(e) /\ Transmitted(engine[e].msg.id)
                         /\ NeverTaken(engine[e].msg.id)) =>
              /\ engine'[e].pc = "fa_send"
              /\ engine'[e].cur = CallOfId(engine[e].msg.id)
              /\ calls'[engine'[e].cur].taken = 1]_vars

\* The response was taken for delivery while its caller was still in the
\* call of quickfix.Send, which then returned: the caller waits on a call
\* that FromApp already holds.
C23_Witness ==
    \E k \in CallNums, e \in Engines :
        /\ engine[e].pc = "fa_send"
        /\ engine[e].cur = k
        /\ calls[k].taken = 1
        /\ calls[k].sendOK
        /\ calls[k].sends = 0
        /\ \E c \in Callers : caller[c].cc = k /\ caller[c].pc = "wait"

\* The Call with this id has returned, with this outcome.
Returned(id) == result[id] # Outstanding

\* What holds of the outcome of every Call, whichever way it ended: a Call
\* that has returned has left Call for good (one outcome); nil comes only
\* after one FromApp matched a message carrying the id, which set the
\* response to its copy of that message before it signaled; ErrClosed only
\* for a Call rejected at registration or signaled by OnLogout; the context
\* error only out of wait, after the engine had accepted the request.
OutcomeOf(id) ==
    LET k == CallOfId(id) IN
    /\ Returned(id) => \A c \in Callers : caller[c].id # id
    /\ result[id] = Nil =>
          /\ k # NoCall
          /\ calls[k].taken = 1
          /\ "FromApp" \in calls[k].by
          /\ calls[k].response # NoMsg
          /\ calls[k].response.id = id
    /\ result[id] = ErrClosed => (k = NoCall \/ "OnLogout" \in calls[k].by)
    /\ result[id] = ErrCtx => (k # NoCall /\ calls[k].sendOK)
    /\ (k # NoCall /\ "FromApp" \in calls[k].by) => calls[k].response # NoMsg

\* C24 as claimed: every Call has the outcome described above, and the
\* response field is never set on a call whose Call ended in an error.
C24_ResponseOnlyOnSuccess ==
    \A id \in 1..nextId :
        /\ OutcomeOf(id)
        /\ (Returned(id) /\ result[id] # Nil /\ CallOfId(id) # NoCall) =>
              calls[CallOfId(id)].response = NoMsg

\* C24 as amended: every Call has the outcome described above, and the
\* response field is set only by a FromApp that matched the call, to a
\* message carrying its id (it may be set after the Call has returned an
\* error).
C24_ResponseOnlyByMatch ==
    \A id \in 1..nextId :
        /\ OutcomeOf(id)
        /\ (CallOfId(id) # NoCall /\ calls[CallOfId(id)].response # NoMsg) =>
              /\ calls[CallOfId(id)].taken = 1
              /\ calls[CallOfId(id)].response.id = id

\* One Call returned the response that FromApp matched to it; another left
\* wait on its context, and the response that came afterwards was matched
\* and stored in its call all the same.
C24_Witness ==
    \E j, k \in CallNums :
        /\ result[calls[j].id] = Nil
        /\ calls[j].response = [type |-> msgType_LIMIT_RESPONSE, id |-> calls[j].id]
        /\ result[calls[k].id] = ErrCtx
        /\ calls[k].response.id = calls[k].id
        /\ calls[k].closed

\* The session goroutine e takes a step of FromApp; the id its message carries.
InFromApp(e) ==
    /\ engine'[e] # engine[e]
    /\ engine[e].pc \in {"idle", "fa_take", "fa_send", "fa_close"}
    /\ engine'[e].pc \in {"idle", "fa_take", "fa_send", "fa_close"}
IdOf(e) == IF engine[e].pc = "idle" THEN engine'[e].msg.id ELSE engine[e].msg.id

\* C25: independence of concurrent calls. A step of FromApp for a message
\* carrying id X changes nothing of the calls of other ids: their entries
\* stay in the table, their channels and responses stay as they are, their
\* callers and results too; and whatever the order in which the responses
\* come, a Call that returns a response has got the one carrying its own id.
C25_Independence ==
    [][/\ \A e \in Engines :
             InFromApp(e) =>
                 /\ \A id \in (DOMAIN pending) \ {IdOf(e)} :
                       id \in DOMAIN pending' /\ pending'[id] = pending[id]
                 /\ \A k \in CallNums : calls[k].id # IdOf(e) => calls'[k] = calls[k]
                 /\ caller' = caller
                 /\ result' = result
       /\ \A k \in 1..Len(calls') :
             result'[calls'[k].id] = Nil => calls'[k].response.id = calls'[k].id]_vars

\* Two Calls were outstanding; the response to the second request came
\* first and was delivered to its caller, while the first call is still in
\* the table, unsignaled, its caller waiting.
C25_Witness ==
    \E j, k \in CallNums :
        /\ calls[j].id < calls[k].id
        /\ result[calls[k].id] = Nil
        /\ calls[k].response.id = calls[k].id
        /\ InTable(j)
        /\ calls[j].sends = 0
        /\ calls[j].sendOK
        /\ \E c \in Callers : caller[c].pc = "wait" /\ caller[c].cc = j

\* C26: the callback thread never blocks while signaling. Whenever FromApp
\* or OnLogout is at a send on the done channel of a call, the send can
\* proceed at once: the buffer of the channel has room for the value, or the
\* channel is closed (and the send panics instead of waiting); no callback is
\* ever at a send on an open channel whose buffer is full.
C26_SendNeverBlocks ==
    \A e \in Engines :
        engine[e].pc \in {"lo_send", "fa_send"} =>
            \/ calls[engine[e].cur].closed
            \/ Room(calls[engine[e].cur].buf)

\* The caller of a call left wait on its context; the callback that came
\* afterwards sent on the channel and closed it and has returned, and the
\* value sits in the buffer, which nobody will receive from.
C26_Witness ==
    \E k \in CallNums :
        /\ Canceled(k)
        /\ calls[k].sends = 1
        /\ calls[k].buf # <<>>
        /\ calls[k].closed
        /\ \A e \in Engines : engine[e].pc = "idle"
        /\ \A c \in Callers : caller[c].cc # k

\* A FromApp that took call k out of the table is still on its way to the
\* send and the close: the process is alive and a session goroutine holds k.
BeingDelivered(k) ==
    /\ Running
    /\ \E e \in Engines : engine[e].cur = k /\ engine[e].pc \in {"fa_send", "fa_close"}

\* C27: removal is always followed by a signal. Every call that FromApp took
\* out of the table and is no longer working on has been sent on and its
\* channel closed, also when copying the message failed: no execution ends
\* with a call removed and left unsignaled.
C27_RemovalThenSignal ==
    \A k \in CallNums :
        (calls[k].taken > 0 /\ ~BeingDelivered(k)) =>
            calls[k].sends > 0 /\ calls[k].closed

====
